---- MODULE Spec2Model ----
(***************************************************************************)
(* The chunk -> buffer -> batch -> reassemble pipeline of                  *)
(* codes_src/ibox_interactive.py (cut_str, buffered_read_str,              *)
(* make_batches, ibox_interactive.__init__, ibox_interactive.run_decoding).*)
(*                                                                         *)
(* Strings are sequences of one-character strings.  An optional value      *)
(* (Python None or a value v) is the set {} or {v}.                        *)
(***************************************************************************)
EXTENDS Integers, Sequences, FiniteSets, TLC

VARIABLES
    args,             \* the options object held by the pipeline (self.args)
    caller_args,      \* the options object as the caller supplied it to __init__
    pc,               \* position of __init__ / run_decoding
    init_log,         \* collaborators __init__ has called so far, in order
    input,            \* run_decoding's argument
    start_id,         \* run_decoding: running id counter
    output_str_list,  \* run_decoding: per-buffer output strings
    inputs,           \* run_decoding: the buffer the for-loop currently holds
    batches,          \* the batches of the current buffer, as the iterator yields them
    bi,               \* number of batches of the current buffer already dispatched
    results,          \* run_decoding: (id, src_tokens, hypos) of the current buffer
    ret,              \* run_decoding's return value ({} while it has not returned)
    gen_pc,           \* position of the buffered_read_str generator
    gen_i,            \* buffered_read_str: number of chunks of input_list consumed
    buffer,           \* buffered_read_str: the local list `buffer`
    emitted,          \* every buffer buffered_read_str has yielded, in order
    engine_calls,     \* number of task.inference_step calls of this run
    engine_failed,    \* an inference_step call of this run raised
    dropped,          \* an inference_step call of this run returned fewer results than ids
    batches_made,     \* number of batches make_batches has yielded in this run
    calls_left,       \* run_decoding calls the caller will still make on this object
    prev_ret,         \* what the previous call returned, if it returned with every id answered
    prev_end,         \* how the previous call ended: "none", "returned", "short", "raised"
    warmup_updates,   \* WarmupLinearSchedule: args.warmup_updates
    optimizer_lr,     \* the optimizer's learning rate, <<n, d>> for n/d times args.lr[0]
    num_updates,      \* the argument of the last step_update call
    step_outcome      \* how the last step_update call ended

vars == <<args, caller_args, pc, init_log, input, start_id, output_str_list,
          inputs, batches, bi, results, ret, gen_pc, gen_i, buffer, emitted,
          engine_calls, engine_failed, dropped, batches_made, calls_left, prev_ret,
          prev_end, warmup_updates, optimizer_lr, num_updates, step_outcome>>

initVars == <<args, caller_args, init_log>>
runVars  == <<input, start_id, output_str_list, inputs, batches, bi, results, ret,
              engine_calls, engine_failed, dropped>>
genVars  == <<gen_pc, gen_i, buffer, emitted>>
callVars == <<calls_left, prev_ret, prev_end>>
lrVars   == <<warmup_updates, optimizer_lr, num_updates, step_outcome>>

(***************************************************************************)
(* Bounds of the model.                                                    *)
(***************************************************************************)
MaxSegs == 3          \* an input text is made of at most MaxSegs runs of one character
MaxBufferSize == 2    \* largest --buffer-size a caller supplies
MaxWarmup == 4        \* largest --warmup-updates of a scheduler
MaxUpdates == 8       \* largest num_updates step_update is called with

(***************************************************************************)
(* Program constants.                                                      *)
(***************************************************************************)
ChunkLen == 250       \* cut_str(input, 250)

None == {}
Some(v) == {v}
Val(o) == CHOOSE v \in o : TRUE

(***************************************************************************)
(* Strings.                                                                *)
(***************************************************************************)
Whitespace == {" ", "\n"}
Chars == {"a", "b", " "}

Rep(c, n) == [i \in 1..n |-> c]

RECURSIVE Concat(_)
\* ''.join(list)
Concat(ss) == IF ss = <<>> THEN <<>> ELSE Head(ss) \o Concat(Tail(ss))

Reverse(s) == [i \in 1..Len(s) |-> s[Len(s) + 1 - i]]

RECURSIVE FirstNonWs(_, _, _)
\* the least index in lo..hi of a character of s that is no whitespace, hi + 1 if none
FirstNonWs(s, lo, hi) ==
    IF lo > hi THEN hi + 1
    ELSE IF lo = hi THEN (IF s[lo] \in Whitespace THEN hi + 1 ELSE lo)
    ELSE LET mid == (lo + hi) \div 2
             l == FirstNonWs(s, lo, mid)
         IN IF l <= mid THEN l ELSE FirstNonWs(s, mid + 1, hi)

RECURSIVE LastNonWs(_, _, _)
\* the greatest index in lo..hi of a character of s that is no whitespace, lo - 1 if none
LastNonWs(s, lo, hi) ==
    IF lo > hi THEN lo - 1
    ELSE IF lo = hi THEN (IF s[lo] \in Whitespace THEN lo - 1 ELSE lo)
    ELSE LET mid == (lo + hi) \div 2
             r == LastNonWs(s, mid + 1, hi)
         IN IF r > mid THEN r ELSE LastNonWs(s, lo, mid)

\* str.strip(): the string without its leading and trailing whitespace
strip(s) == SubSeq(s, FirstNonWs(s, 1, Len(s)), LastNonWs(s, 1, Len(s)))

(***************************************************************************)
(* The input texts: concatenations of at most MaxSegs runs.  A run is one  *)
(* letter, or ChunkLen copies of "a", or ChunkLen blanks (which makes a    *)
(* blank chunk, or shifts what follows across a chunk boundary).           *)
(***************************************************************************)
Segs == {<<"a">>, <<"b">>, Rep("a", ChunkLen), Rep(" ", ChunkLen)}
SegSeqs == UNION {[1..k -> Segs] : k \in 0..MaxSegs}
Texts == {Concat(ss) : ss \in SegSeqs}

(***************************************************************************)
(* cut_str and buffered_read_str (a generator: it runs only while the      *)
(* for-loop of run_decoding is waiting in next()).                         *)
(***************************************************************************)
Min(a, b) == IF a <= b THEN a ELSE b

\* [text[i:i+length] for i in range(0, len(text), length)]
cut_str(text, length) ==
    [k \in 1..((Len(text) + length - 1) \div length) |->
        SubSeq(text, (k - 1) * length + 1, Min(k * length, Len(text)))]

\* the local input_list of buffered_read_str
input_list == cut_str(input, ChunkLen)

\* `src_str.strip() is not None`: str.strip() returns a str, which is never None
StripIsNotNone(src_str) == Some(strip(src_str)) # None

\* a slip: `len(buffer) > buffer_size`
BufferOverfull(buf, buffer_size) == Len(buf) > buffer_size

\* `len(buffer) >= buffer_size`
BufferFull(buf, buffer_size) == Len(buf) >= buffer_size

\* a slip: `len(buffer) >= 0` after the loop
BufferLeftOrEmpty(buf) == Len(buf) >= 0

\* `len(buffer) > 0` after the loop
BufferLeft(buf) == Len(buf) > 0

\* a slip: the buffer is not emptied after a yield
KeptBuffer(buf) == buf

\* `buffer = []` after a yield
FreshBuffer(buf) == <<>>

\* a slip: the buffers are read ahead while the current one is being processed
GenRunsAhead == pc \in {"next_buffer", "make_batches", "dispatch"}

\* the generator body runs only between a next() of the for-loop of
\* run_decoding and the following yield / StopIteration
GenMayRun == pc = "next_buffer"

\* `yield buffer`: the for-loop of run_decoding receives the buffer
Yield(buf) ==
    /\ inputs' = buf
    /\ emitted' = Append(emitted, buf)
    /\ pc' = "make_batches"

\* first next(): buffer = []; input_list = cut_str(input, 250)
GenStart ==
    /\ GenMayRun
    /\ gen_pc = "start"
    /\ buffer' = <<>>
    /\ gen_i' = 0
    /\ gen_pc' = "loop"
    /\ UNCHANGED <<initVars, callVars, lrVars, batches_made, runVars, pc, emitted>>

\* one iteration of `for src_str in input_list`
GenChunk ==
    /\ GenMayRun
    /\ gen_pc = "loop"
    /\ gen_i < Len(input_list)
    /\ gen_i' = gen_i + 1
    /\ LET src_str == input_list[gen_i + 1]
           appended == IF StripIsNotNone(src_str)
                       THEN Append(buffer, strip(src_str)) ELSE buffer
       IN /\ buffer' = appended
          /\ IF StripIsNotNone(src_str) /\ BufferFull(appended, args.buffer_size)
             THEN /\ Yield(appended)
                  /\ gen_pc' = "yielded"
             ELSE /\ UNCHANGED <<inputs, emitted, pc>>
                  /\ gen_pc' = "loop"
    /\ UNCHANGED <<initVars, callVars, lrVars, batches_made, input, start_id, output_str_list, batches, bi, results, ret,
                   engine_calls, engine_failed, dropped>>

\* next() after a yield inside the loop: buffer = []
GenResume ==
    /\ GenMayRun
    /\ gen_pc = "yielded"
    /\ buffer' = FreshBuffer(buffer)
    /\ gen_pc' = "loop"
    /\ UNCHANGED <<initVars, callVars, lrVars, batches_made, runVars, pc, gen_i, emitted>>

\* the loop is exhausted: `if len(buffer) > 0: yield buffer`, else the generator ends
GenRest ==
    /\ GenMayRun
    /\ gen_pc = "loop"
    /\ gen_i = Len(input_list)
    /\ IF BufferLeft(buffer)
       THEN /\ Yield(buffer)
            /\ gen_pc' = "yielded_rest"
       ELSE /\ gen_pc' = "finished"
            /\ pc' = "return"
            /\ UNCHANGED <<inputs, emitted>>
    /\ UNCHANGED <<initVars, callVars, lrVars, batches_made, input, start_id, output_str_list, batches, bi, results, ret,
                   engine_calls, engine_failed, dropped, gen_i, buffer>>

\* next() after the final yield: the generator ends
GenFinish ==
    /\ GenMayRun
    /\ gen_pc = "yielded_rest"
    /\ gen_pc' = "finished"
    /\ pc' = "return"
    /\ UNCHANGED <<initVars, callVars, lrVars, batches_made, runVars, gen_i, buffer, emitted>>

(***************************************************************************)
(* make_batches.  The dictionary, the batch iterator and the inference     *)
(* engine are collaborators of the pipeline: the dictionary maps each      *)
(* character to a token, the iterator yields any partition of the buffer's *)
(* ids into batches of at most max_sentences ids (in any order, ids in any *)
(* order inside a batch), and the engine ranks two hypotheses per row, the *)
(* reversed row first.                                                     *)
(***************************************************************************)
Pad == "<pad>"

\* task.source_dictionary.encode_line(encode_fn(src_str)), tokenizer and bpe being None
encode_line(src_str) ==
    [i \in 1..Len(src_str) |->
        CASE src_str[i] = "a" -> "tok_a"
          [] src_str[i] = "b" -> "tok_b"
          [] OTHER            -> "tok_sp"]

\* tgt_dict.string(tokens) inside utils.post_process_prediction
dict_string(tokens) ==
    [i \in 1..Len(tokens) |->
        CASE tokens[i] = "tok_a" -> "a"
          [] tokens[i] = "tok_b" -> "b"
          [] OTHER               -> " "]

Max(a, b) == IF a >= b THEN a ELSE b

RECURSIVE MaxLen(_)
MaxLen(rows) == IF rows = <<>> THEN 0 ELSE Max(Len(Head(rows)), MaxLen(Tail(rows)))

\* batch['net_input']['src_tokens']: the rows of a batch, left-padded to one width
src_tokens_of(lines, ids) ==
    LET rows == [i \in 1..Len(ids) |-> encode_line(lines[ids[i] + 1])]
        w == MaxLen(rows)
    IN [i \in 1..Len(ids) |-> Rep(Pad, w - Len(rows[i])) \o rows[i]]

\* utils.strip_pad(tensor, pad)
strip_pad(row) == SelectSeq(row, LAMBDA t : t # Pad)

\* the injective sequences over S: the orders the iterator may list S in
Perms(S) == {f \in [1..Cardinality(S) -> S] : \A i, j \in DOMAIN f : f[i] = f[j] => i = j}

\* the k-th piece of p cut after the positions in cuts
Piece(p, cuts, from) ==
    LET ends == {c \in cuts \cup {Len(p)} : c >= from}
        to == CHOOSE c \in ends : \A d \in ends : c <= d
    IN SubSeq(p, from, to)

RECURSIVE Pieces(_, _, _)
Pieces(p, cuts, from) ==
    IF from > Len(p) THEN <<>>
    ELSE LET piece == Piece(p, cuts, from)
         IN <<piece>> \o Pieces(p, cuts, from + Len(piece))

\* `not args.max_sentences or len(batch) <= args.max_sentences`
WithinMaxSentences(batch, max_sentences) ==
    \/ max_sentences = None
    \/ Val(max_sentences) = 0
    \/ Len(batch) <= Val(max_sentences)

\* every sequence of batches make_batches may yield for a buffer of n lines
make_batches(n, max_sentences) ==
    {bs \in {Pieces(p, cuts, 1) : p \in Perms(0..(n - 1)), cuts \in SUBSET (1..(n - 1))} :
        \A k \in DOMAIN bs : WithinMaxSentences(bs[k], max_sentences)}

\* task.inference_step on one row: the hypotheses, best first
inference_step(row) == <<Reverse(strip_pad(row)), strip_pad(row)>>

(***************************************************************************)
(* ibox_interactive.run_decoding                                           *)
(***************************************************************************)
\* how the call of run_decoding before this one ended: there was none, it returned
\* (with every id answered, or short of some results), or the engine's exception left it
CallEnd ==
    IF pc = "idle" THEN "none"
    ELSE IF pc = "raised" THEN "raised"
    ELSE IF dropped THEN "short" ELSE "returned"

\* a slip: the accumulator is a field of the object, which the calls share
SharedOutputList(left) == left

\* output_str_list = []: a new list, whatever the call before left in its own
NewOutputList(left) == <<>>

\* a call of run_decoding (the first on any text, a later one on the same text):
\* start_id = 0; output_str_list = []; the for-loop asks for the first buffer
RunDecoding ==
    /\ pc \in {"idle", "done", "raised"}
    /\ calls_left > 0
    /\ calls_left' = calls_left - 1
    /\ prev_ret' = (IF CallEnd = "returned" THEN ret ELSE None)
    /\ prev_end' = CallEnd
    /\ \E text \in (IF pc = "idle" THEN Texts ELSE {input}) : input' = text
    /\ start_id' = 0
    /\ output_str_list' = NewOutputList(output_str_list)
    /\ inputs' = <<>>
    /\ batches' = <<>>
    /\ bi' = 0
    /\ results' = <<>>
    /\ ret' = None
    /\ gen_pc' = "start"
    /\ gen_i' = 0
    /\ buffer' = <<>>
    /\ emitted' = <<>>
    /\ engine_calls' = 0
    /\ engine_failed' = FALSE
    /\ dropped' = FALSE
    /\ batches_made' = 0
    /\ pc' = "next_buffer"
    /\ UNCHANGED <<initVars, lrVars>>

\* results = []; the batch iterator is built for the buffer
MakeBatches ==
    /\ pc = "make_batches"
    /\ results' = <<>>
    /\ \E bs \in make_batches(Len(inputs), args.max_sentences) : batches' = bs
    /\ bi' = 0
    /\ batches_made' = batches_made + Len(batches')
    /\ pc' = "dispatch"
    /\ UNCHANGED <<initVars, callVars, lrVars, genVars, input, start_id, output_str_list, inputs, ret,
                   engine_calls, engine_failed, dropped>>

\* for i, (id, hypos) in enumerate(zip(batch.ids.tolist(), translations)):
\*     results.append((start_id + id, strip_pad(src_tokens[i]), hypos))
ZipResults(offset, ids, src_tokens, translations) ==
    [i \in 1..Min(Len(ids), Len(translations)) |->
        <<offset + ids[i], strip_pad(src_tokens[i]), translations[i]>>]

\* one batch: the engine returns its translations
Dispatch ==
    /\ pc = "dispatch"
    /\ bi < Len(batches)
    /\ LET ids == batches[bi + 1]
           src_tokens == src_tokens_of(inputs, ids)
       IN \E m \in 0..Len(ids) :
            LET translations == [i \in 1..m |-> inference_step(src_tokens[i])]
            IN /\ results' = results \o ZipResults(start_id, ids, src_tokens, translations)
               /\ dropped' = (dropped \/ m < Len(ids))
    /\ bi' = bi + 1
    /\ engine_calls' = engine_calls + 1
    /\ UNCHANGED <<initVars, callVars, lrVars, batches_made, genVars, pc, input, start_id, output_str_list, inputs,
                   batches, ret, engine_failed>>

\* a slip: the exception is caught and the batch is dispatched again
AfterEngineErrorRetry == "dispatch"

\* where run_decoding is after inference_step raised: the exception leaves run_decoding
AfterEngineError == "raised"

\* one batch: the engine raises
DispatchRaises ==
    /\ pc = "dispatch"
    /\ bi < Len(batches)
    /\ engine_calls' = engine_calls + 1
    /\ engine_failed' = TRUE
    /\ pc' = AfterEngineError
    /\ UNCHANGED <<initVars, callVars, lrVars, batches_made, genVars, input, start_id, output_str_list, inputs,
                   batches, bi, results, ret, dropped>>

RECURSIVE InsertByKey(_, _)
InsertByKey(sorted, x) ==
    IF sorted = <<>> THEN <<x>>
    ELSE IF Head(sorted)[1] <= x[1] THEN <<Head(sorted)>> \o InsertByKey(Tail(sorted), x)
    ELSE <<x>> \o sorted

RECURSIVE SortedByKey(_)
\* sorted(results, key=lambda x: x[0]) (stable)
SortedByKey(rs) ==
    IF rs = <<>> THEN <<>>
    ELSE InsertByKey(SortedByKey(SubSeq(rs, 1, Len(rs) - 1)), rs[Len(rs)])

\* a slip: the results are taken in the order the batches delivered them
ArrivalOrder(rs) == rs

\* for id, src_tokens, hypos in sorted(results, key=lambda x: x[0])
sorted_results(rs) == SortedByKey(rs)

\* hypo = hypos[0]
TopHypo(hypos) == hypos[1]

\* the body of the loop over the sorted results: the decoded top hypothesis
HypoStr(r) == dict_string(TopHypo(r[3]))

\* a slip: output_str_list.insert(0, result_str)
AppendOutputFront(list, result_str) == <<result_str>> \o list

\* output_str_list.append(result_str)
AppendOutput(list, result_str) == Append(list, result_str)

\* a slip: the counter is advanced by one per buffer
NextStartIdByOne(id, buf) == id + 1

\* start_id += len(inputs)
NextStartId(id, buf) == id + Len(buf)

\* a slip: the sorting block is indented into the loop over the batches
AnyBatchDone(i, bs) == i >= 1

\* the for-loop over the batch iterator has ended: every batch has been dispatched
BatchesExhausted(i, bs) == i = Len(bs)

\* the batches are exhausted: sort, decode, append the buffer's string, advance start_id
Reassemble ==
    /\ pc = "dispatch"
    /\ BatchesExhausted(bi, batches)
    /\ LET sorted == sorted_results(results)
           result_str_list == [i \in 1..Len(sorted) |-> HypoStr(sorted[i])]
           result_str == Concat(result_str_list)
       IN output_str_list' = AppendOutput(output_str_list, result_str)
    /\ start_id' = NextStartId(start_id, inputs)
    /\ pc' = "next_buffer"
    /\ UNCHANGED <<initVars, callVars, lrVars, batches_made, genVars, input, inputs, batches, bi, results, ret,
                   engine_calls, engine_failed, dropped>>

\* return ''.join(output_str_list)
Return ==
    /\ pc = "return"
    /\ ret' = Some(Concat(output_str_list))
    /\ pc' = "done"
    /\ UNCHANGED <<initVars, callVars, lrVars, batches_made, genVars, input, start_id, output_str_list, inputs, batches,
                   bi, results, engine_calls, engine_failed, dropped>>

(***************************************************************************)
(* ibox_interactive.__init__                                               *)
(***************************************************************************)
\* the options objects a caller may supply
ArgsSet ==
    [buffer_size   : (0 - 1)..MaxBufferSize,
     max_tokens    : {None, Some(1024)},
     max_sentences : {None} \cup {Some(n) : n \in 0..(MaxBufferSize + 1)},
     sampling      : BOOLEAN,
     nbest         : {1},
     beam          : {1, 2}]

\* Python truthiness of an optional integer: `not x`
Not(x) == x = None \/ Val(x) = 0

\* a slip: the buffer size is left as the caller gave it
KeepBufferSize(a) == a

\* if args.buffer_size < 1: args.buffer_size = 1
CoerceBufferSize(a) ==
    IF a.buffer_size < 1 THEN [a EXCEPT !.buffer_size = 1] ELSE a

\* a slip: no default for max_sentences
NoDefaultMaxSentences(a) == a

\* if args.max_tokens is None and args.max_sentences is None: args.max_sentences = 1
DefaultMaxSentences(a) ==
    IF a.max_tokens = None /\ a.max_sentences = None
    THEN [a EXCEPT !.max_sentences = Some(1)] ELSE a

\* assert not args.sampling or args.nbest == args.beam
SamplingAssert(a) == ~a.sampling \/ a.nbest = a.beam

\* a slip: the assertion on max_sentences is missing
NoMaxSentencesAssert(a) == TRUE

\* assert not args.max_sentences or args.max_sentences <= args.buffer_size
MaxSentencesAssert(a) == Not(a.max_sentences) \/ Val(a.max_sentences) <= a.buffer_size

\* the options object after the two adjustments that precede the assertions
Adjusted(a) == DefaultMaxSentences(CoerceBufferSize(a))

\* both assertions pass
AssertsPass(a) == SamplingAssert(a) /\ MaxSentencesAssert(a)

\* the adjustments and the assertions
Validate ==
    /\ pc = "new"
    /\ args' = Adjusted(args)
    /\ pc' = IF AssertsPass(Adjusted(args)) THEN "setup_task" ELSE "init_failed"
    /\ UNCHANGED <<caller_args, init_log, runVars, genVars, callVars, lrVars, batches_made>>

\* task = tasks.setup_task(args)
SetupTask ==
    /\ pc = "setup_task"
    /\ init_log' = Append(init_log, "setup_task")
    /\ pc' = "load_models"
    /\ UNCHANGED <<args, caller_args, runVars, genVars, callVars, lrVars, batches_made>>

\* models, _model_args = checkpoint_utils.load_model_ensemble(...)
LoadModels ==
    /\ pc = "load_models"
    /\ init_log' = Append(init_log, "load_model_ensemble")
    /\ pc' = "build"
    /\ UNCHANGED <<args, caller_args, runVars, genVars, callVars, lrVars, batches_made>>

\* the generator, the tokenizer and the fields of self are set: the object is built
Built ==
    /\ pc = "build"
    /\ init_log' = Append(init_log, "build_generator")
    /\ pc' = "idle"
    /\ UNCHANGED <<args, caller_args, runVars, genVars, callVars, lrVars, batches_made>>

(***************************************************************************)
(* WarmupLinearSchedule.step_update.                                       *)
(***************************************************************************)
\* a slip: `num_updates < self.args.warmup_updates`
InWarmupStrict(w, n) == w > 0 /\ n < w

\* if self.args.warmup_updates > 0 and num_updates <= self.args.warmup_updates
InWarmup(w, n) == w > 0 /\ n <= w

\* warmup_factor = float(num_updates) / float(max(1, self.args.warmup_updates));
\* lr = warmup_factor * self.lr    (the quotient kept as numerator and denominator)
WarmupLr(w, n) == <<n, Max(1, w)>>

\* step_update(num_updates).  On the else branch line 62 reads self.total_num_updates
\* and self.warmup_steps, which __init__ never sets, and line 65 reads the local lr,
\* which that branch never assigns: an exception leaves the method before set_lr
StepUpdate ==
    /\ pc = "scheduler"
    /\ \E n \in 0..MaxUpdates :
         /\ num_updates' = n
         /\ IF InWarmup(warmup_updates, n)
            THEN /\ optimizer_lr' = WarmupLr(warmup_updates, n)
                 /\ step_outcome' = "returned"
            ELSE /\ optimizer_lr' = optimizer_lr
                 /\ step_outcome' = "raised"
    /\ UNCHANGED <<initVars, callVars, runVars, genVars, batches_made, pc, warmup_updates>>

(***************************************************************************)
(* Specifications.                                                         *)
(***************************************************************************)
NoRun ==
    /\ input = <<>>
    /\ start_id = 0
    /\ output_str_list = <<>>
    /\ inputs = <<>>
    /\ batches = <<>>
    /\ bi = 0
    /\ results = <<>>
    /\ ret = None
    /\ gen_pc = "start"
    /\ gen_i = 0
    /\ buffer = <<>>
    /\ emitted = <<>>
    /\ engine_calls = 0
    /\ engine_failed = FALSE
    /\ dropped = FALSE
    /\ batches_made = 0
    /\ prev_ret = None
    /\ prev_end = "none"

\* no learning-rate scheduler is in use
NoScheduler ==
    /\ warmup_updates = 0
    /\ optimizer_lr = <<1, 1>>
    /\ num_updates = 0
    /\ step_outcome = "none"

\* __init__ is entered with the caller's options
InitNew ==
    /\ caller_args \in ArgsSet
    /\ args = caller_args
    /\ pc = "new"
    /\ init_log = <<>>
    /\ calls_left = 0
    /\ NoRun
    /\ NoScheduler

NextInit == Validate \/ SetupTask \/ LoadModels \/ Built

SpecInit == InitNew /\ [][NextInit]_vars

\* the callers the pipeline runs are explored for: a sentence limit of at least one
\* and no token limit, no sampling
RunCallers ==
    {a \in ArgsSet : /\ a.buffer_size >= 1
                     /\ a.max_tokens = None
                     /\ ~Not(a.max_sentences)
                     /\ ~a.sampling
                     /\ a.beam = 2
                     /\ AssertsPass(Adjusted(a))}

\* a pipeline object __init__ has built, before the first run_decoding call
Init ==
    /\ caller_args \in RunCallers
    /\ args = Adjusted(caller_args)
    /\ pc = "idle"
    /\ init_log = <<"setup_task", "load_model_ensemble", "build_generator">>
    /\ calls_left = 1
    /\ NoRun
    /\ NoScheduler

Next ==
    \/ RunDecoding
    \/ GenStart \/ GenChunk \/ GenResume \/ GenRest \/ GenFinish
    \/ MakeBatches \/ Dispatch \/ DispatchRaises \/ Reassemble \/ Return

Spec == Init /\ [][Next]_vars

\* the caller calls run_decoding twice on one object, with the same text; the
\* options are ones __init__ had nothing to adjust in
InitTwice ==
    /\ caller_args \in {a \in RunCallers : Adjusted(a) = a}
    /\ args = caller_args
    /\ pc = "idle"
    /\ init_log = <<"setup_task", "load_model_ensemble", "build_generator">>
    /\ calls_left = 2
    /\ NoRun
    /\ NoScheduler

SpecTwice == InitTwice /\ [][Next]_vars

\* a WarmupLinearSchedule has been constructed: optimizer.set_lr(self.lr), the rate
\* being counted in units of self.lr = args.lr[0]; the pipeline plays no part
InitLR ==
    /\ caller_args = (CHOOSE a \in RunCallers : TRUE)
    /\ args = Adjusted(caller_args)
    /\ pc = "scheduler"
    /\ init_log = <<>>
    /\ calls_left = 0
    /\ NoRun
    /\ warmup_updates \in 0..MaxWarmup
    /\ optimizer_lr = <<1, 1>>
    /\ num_updates = 0
    /\ step_outcome = "none"

NextLR == StepUpdate

SpecLR == InitLR /\ [][NextLR]_vars

\* buffered_read_str on its own: a for-loop that takes each buffer and asks for the next
TakeBuffer ==
    /\ pc = "make_batches"
    /\ pc' = "next_buffer"
    /\ UNCHANGED <<initVars, callVars, lrVars, batches_made, runVars, genVars>>

\* buffered_read_str(input, buffer_size) has been called on a text, not yet iterated
InitRead ==
    /\ caller_args \in RunCallers
    /\ args = Adjusted(caller_args)
    /\ init_log = <<"setup_task", "load_model_ensemble", "build_generator">>
    /\ input \in Texts
    /\ pc = "next_buffer"
    /\ start_id = 0
    /\ output_str_list = <<>>
    /\ inputs = <<>>
    /\ batches = <<>>
    /\ bi = 0
    /\ results = <<>>
    /\ ret = None
    /\ gen_pc = "start"
    /\ gen_i = 0
    /\ buffer = <<>>
    /\ emitted = <<>>
    /\ engine_calls = 0
    /\ engine_failed = FALSE
    /\ dropped = FALSE
    /\ batches_made = 0
    /\ calls_left = 0
    /\ prev_ret = None
    /\ prev_end = "none"
    /\ NoScheduler

NextRead == GenStart \/ GenChunk \/ GenResume \/ GenRest \/ GenFinish \/ TakeBuffer

SpecRead == InitRead /\ [][NextRead]_vars

(***************************************************************************)
(* What the claims speak of.                                               *)
(***************************************************************************)
\* the Lines the chunker hands to the buffer assembler for a text, in chunk order
ChunkerLines(text) ==
    LET kept == SelectSeq(cut_str(text, ChunkLen), StripIsNotNone)
    IN [i \in 1..Len(kept) |-> strip(kept[i])]

\* the decoded top hypothesis of one Line
DecodedTop(line) == dict_string(inference_step(encode_line(line))[1])

\* the decoded top hypotheses of a sequence of Lines, concatenated in that order
DecodedInOrder(lines) == Concat([i \in 1..Len(lines) |-> DecodedTop(lines[i])])

\* a buffer is in flight: yielded by the generator, its output not yet appended
InFlight == pc \in {"make_batches", "dispatch"}

\* the position of construction is past the assertions
Constructing == pc \in {"setup_task", "load_models", "build", "idle"}

(***************************************************************************)
(* C1 .. C10                                                               *)
(***************************************************************************)

\* C1: when run_decoding returns and the engine gave one result per submitted id,
\* the returned string is the concatenation of the decoded top hypotheses of
\* Line 0 .. Line n-1 in chunker order, whatever partition into batches and
\* whatever batch order each buffer went through.
C1_EndToEndOrder ==
    (pc = "done" /\ ~dropped) => ret = Some(DecodedInOrder(ChunkerLines(input)))

\* a run over two buffers (two Lines, then one) of three different non-empty
\* Lines has returned
C1_Witness ==
    /\ pc = "done"
    /\ ~dropped
    /\ Len(emitted) = 2
    /\ Len(emitted[1]) = 2
    /\ Cardinality({emitted[1][1], emitted[1][2], emitted[2][1], <<>>}) = 4

\* a buffer's results have just been reassembled and its output string appended
JustReassembled == pc = "next_buffer" /\ gen_pc \in {"yielded", "yielded_rest"}

\* C2: whenever a buffer has been reassembled (the engine having given one
\* result per id), its output string lists the decoded top hypotheses of the
\* buffer's Lines in ascending LocalId order, for every partition into batches
\* and every order in which the batches' results were fed to it (so any two
\* orders give the same string).
C2_PermutationInvariance ==
    (JustReassembled /\ ~dropped) =>
        /\ Len(output_str_list) = Len(emitted)
        /\ \A k \in DOMAIN output_str_list : output_str_list[k] = DecodedInOrder(emitted[k])

\* a buffer of two different Lines was split into two single-Line batches, the
\* batch of Line 1 was dispatched before the batch of Line 0, and the buffer's
\* output has been appended
C2_Witness ==
    /\ pc = "next_buffer"
    /\ ~dropped
    /\ batches = << <<1>>, <<0>> >>
    /\ bi = 2
    /\ Len(output_str_list) = Len(emitted)
    /\ Len(inputs) = 2
    /\ DecodedTop(inputs[1]) # DecodedTop(inputs[2])

\* C3: every Line of every buffer buffered_read_str yields is a trimmed,
\* non-empty string of at most 250 characters (a chunk that trims to the empty
\* string never appears in a buffer).
C3_LinesTrimmedNonEmpty ==
    \A k \in DOMAIN emitted : \A i \in DOMAIN emitted[k] :
        /\ emitted[k][i] # <<>>
        /\ Len(emitted[k][i]) <= ChunkLen
        /\ strip(emitted[k][i]) = emitted[k][i]

\* C4: at every moment the Lines of the buffers yielded so far, concatenated in
\* emission order, are the first Lines of the chunker's sequence, and once the
\* generator has ended they are the whole sequence: nothing lost, duplicated or
\* reordered.
C4_BuffersCoverLines ==
    LET flat == Concat(emitted)
        all == ChunkerLines(input)
    IN /\ Len(flat) <= Len(all)
       /\ flat = SubSeq(all, 1, Len(flat))
       /\ gen_pc = "finished" => flat = all

\* the generator has ended after yielding two buffers holding three Lines that
\* are not all the same
C4_Witness ==
    /\ gen_pc = "finished"
    /\ Len(emitted) = 2
    /\ Len(Concat(emitted)) = 3
    /\ Cardinality({Concat(emitted)[i] : i \in 1..3}) >= 2

\* the sizes of the yielded buffers: each between 1 and B, each but the last exactly B
BufferSizesOK ==
    /\ \A k \in DOMAIN emitted : Len(emitted[k]) >= 1 /\ Len(emitted[k]) <= args.buffer_size
    /\ \A k \in 1..(Len(emitted) - 1) : Len(emitted[k]) = args.buffer_size

\* C5 as stated: every buffer holds between 1 and B Lines, every buffer but the
\* last exactly B, and when the number of Lines is at most B exactly one buffer
\* is yielded.
C5_AsStated ==
    /\ BufferSizesOK
    /\ (gen_pc = "finished" /\ Len(ChunkerLines(input)) <= args.buffer_size) => Len(emitted) = 1

\* C5, amended: every buffer holds between 1 and B Lines, every buffer but the
\* last exactly B; when the number of Lines is between 1 and B exactly one
\* buffer is yielded, and when there is no Line no buffer is yielded.
C5_BufferSizing ==
    /\ BufferSizesOK
    /\ (gen_pc = "finished" /\ Len(ChunkerLines(input)) \in 1..args.buffer_size) => Len(emitted) = 1
    /\ (gen_pc = "finished" /\ Len(ChunkerLines(input)) = 0) => Len(emitted) = 0

\* with B = 2 the generator has ended after a full buffer and a last buffer of one Line
C5_Witness ==
    /\ gen_pc = "finished"
    /\ args.buffer_size = 2
    /\ Len(emitted) = 2
    /\ Len(emitted[1]) = 2
    /\ Len(emitted[2]) = 1

\* C6: run_decoding never returns an output string when the engine returned
\* fewer hypotheses than the ids of some batch.
C6_MissingResultAborts == dropped => (pc # "done" /\ ret = None)

\* C7: once an engine call has raised, run_decoding is left by the exception
\* and returns nothing, and from then on no engine call is made (no retry, no
\* further batch), no further buffer is pulled and no output is appended.
C7_EngineFailureIsFatal ==
    /\ [](engine_failed => (pc = "raised" /\ ret = None))
    /\ [][engine_failed => /\ engine_calls' = engine_calls
                           /\ emitted' = emitted
                           /\ gen_i' = gen_i
                           /\ bi' = bi
                           /\ output_str_list' = output_str_list
                           /\ ret' = None]_vars

\* the engine raised while an earlier buffer's output was already in
\* output_str_list and chunks of the input were still unread
C7_Witness ==
    /\ engine_failed
    /\ Len(output_str_list) >= 1
    /\ output_str_list[1] # <<>>
    /\ gen_i < Len(input_list)

\* C8 as stated: construction with neither limit set fails, and construction
\* gets past its checks only when the caller gave one of the two limits a
\* positive value.
C8_AsStated ==
    /\ (caller_args.max_tokens = None /\ caller_args.max_sentences = None /\ pc # "new")
           => pc = "init_failed"
    /\ Constructing =>
           \/ (caller_args.max_tokens # None /\ Val(caller_args.max_tokens) > 0)
           \/ (caller_args.max_sentences # None /\ Val(caller_args.max_sentences) > 0)

\* C8, amended: construction with neither limit set does not fail on that
\* account: __init__ sets max_sentences to 1 and fails only if the sampling
\* assertion does; after the adjustments at least one of the two limits is set.
C8_DefaultSentenceLimit ==
    /\ (caller_args.max_tokens = None /\ caller_args.max_sentences = None /\ pc # "new")
           => /\ args.max_sentences = Some(1)
              /\ args.max_tokens = None
              /\ (pc = "init_failed" <=> ~SamplingAssert(caller_args))
    /\ pc # "new" => (args.max_tokens # None \/ args.max_sentences # None)

\* a pipeline was built from options with neither limit set
C8_Witness ==
    /\ pc = "idle"
    /\ caller_args.max_tokens = None
    /\ caller_args.max_sentences = None

\* the caller's max_sentences is set and exceeds n
ExceedsCapacity(n) ==
    caller_args.max_sentences # None /\ Val(caller_args.max_sentences) > n

\* __init__ has called no collaborator and has not got past its assertions
RejectedEarly == pc \in {"new", "init_failed"} /\ init_log = <<>>

\* C9 as stated: for every supplied pair with a positive max_sentences >
\* buffer_size (buffer_size below 1 included) construction is rejected before
\* the task is set up and before any model is loaded.
C9_AsStated ==
    (ExceedsCapacity(caller_args.buffer_size) /\ ExceedsCapacity(0)) => RejectedEarly

\* C9, amended: for every supplied pair with max_sentences > max(buffer_size, 1),
\* the capacity after coercion, construction is rejected before the task is set
\* up and before any model is loaded.
C9_SentenceLimitRejected == ExceedsCapacity(Max(caller_args.buffer_size, 1)) => RejectedEarly

\* options with a buffer size below 1, a sentence limit above 1 and a passing
\* sampling assertion were rejected
C9_Witness ==
    /\ pc = "init_failed"
    /\ caller_args.buffer_size < 1
    /\ ExceedsCapacity(1)
    /\ SamplingAssert(caller_args)

\* C10: at most one buffer is in flight; while a buffer is in flight the
\* generator still holds exactly that buffer (no Line of the next buffer has
\* been pulled); and the generator pulls a chunk, empties its buffer or yields
\* only when every batch of the previous buffer has been dispatched, its output
\* string appended and start_id advanced past it.
C10_StrictBufferSequencing ==
    /\ [](Len(emitted) - Len(output_str_list) \in {0, 1})
    /\ [](InFlight => (buffer = inputs /\ Len(emitted) = Len(output_str_list) + 1))
    /\ [][(pc \in {"next_buffer", "make_batches", "dispatch"}
             /\ (gen_i' # gen_i \/ emitted' # emitted \/ buffer' # buffer))
          => /\ Len(output_str_list) = Len(emitted)
             /\ bi = Len(batches)
             /\ start_id = Len(Concat(emitted))]_vars

\* the second buffer has just been yielded, the first buffer's output being appended
C10_Witness ==
    /\ pc = "make_batches"
    /\ Len(emitted) = 2
    /\ Len(output_str_list) = 1
    /\ bi = Len(batches)
    /\ bi >= 1

(***************************************************************************)
(* C11 .. C17                                                              *)
(***************************************************************************)

\* the GlobalIds recorded in results for the buffer in flight
GlobalIds == {results[i][1] : i \in DOMAIN results}

\* the number of Lines in the buffers that were completed before the one in flight
LinesBefore == Len(Concat(SubSeq(emitted, 1, Len(emitted) - 1)))

\* C11: start_id is 0 before the first buffer; while buffer k is in flight it is
\* the sum of the sizes of buffers 0..k-1, and it is advanced by the buffer's
\* size only when the buffer is reassembled; the GlobalIds recorded for a buffer
\* are pairwise distinct and lie in start_id .. start_id + N - 1, and are all of
\* that range when every id got a result, so over a run the GlobalIds of
\* successive buffers are consecutive ranges that make up 0..n-1.
C11_OffsetBookkeeping ==
    /\ (pc = "next_buffer" /\ emitted = <<>>) => start_id = 0
    /\ InFlight => start_id = LinesBefore
    /\ (pc = "dispatch") =>
          /\ Cardinality(GlobalIds) = Len(results)
          /\ GlobalIds \subseteq start_id..(start_id + Len(inputs) - 1)
          /\ (bi = Len(batches) /\ Len(results) = Len(inputs))
                => GlobalIds = start_id..(start_id + Len(inputs) - 1)
    /\ (pc \in {"next_buffer", "return", "done"}) => start_id = Len(Concat(emitted))
    /\ pc = "done" => start_id = Len(ChunkerLines(input))

\* the second buffer, after a first buffer of two Lines, has all its results
C11_Witness ==
    /\ pc = "dispatch"
    /\ Len(emitted) = 2
    /\ Len(emitted[1]) = 2
    /\ bi = Len(batches)
    /\ Len(results) = Len(inputs)
    /\ GlobalIds = {2}

\* a step that calls the engine makes one call, on the next batch of the iterator
EngineCallInOrder ==
    (pc = "dispatch" /\ engine_calls' # engine_calls) =>
        /\ engine_calls' = engine_calls + 1
        /\ bi < Len(batches)
        /\ (pc' = "dispatch") =>
              /\ bi' = bi + 1
              /\ Len(results') <= Len(results) + Len(batches[bi + 1])
              /\ \A i \in (Len(results) + 1)..Len(results') :
                    results'[i][1] = start_id + batches[bi + 1][i - Len(results)]

\* a step that sorts and decodes a buffer's results calls no engine, all calls made
SortAfterLastBatch ==
    (pc = "dispatch" /\ output_str_list' # output_str_list) =>
        /\ bi = Len(batches)
        /\ engine_calls' = engine_calls
        /\ engine_calls = batches_made

\* C13: within a buffer the engine is called once per batch of make_batches, one call
\* per step, on the batches in the order the iterator yields them (the results a call
\* adds carry the ids of the next batch not yet dispatched); when a run returns, the
\* engine has been called as many times as make_batches yielded batches; and a buffer's
\* results are sorted and decoded only after the call for its last batch has returned.
C13_DispatchProtocol ==
    /\ [](pc = "dispatch" => engine_calls = batches_made - (Len(batches) - bi))
    /\ [](pc = "done" => engine_calls = batches_made)
    /\ [][EngineCallInOrder /\ SortAfterLastBatch]_vars
C13_Witness == pc = "done" /\ Len(emitted) = 2 /\ engine_calls = 3 /\ batches_made = 3 /\ ~dropped

\* C12: for the empty input string no buffer is yielded, make_batches and the
\* engine are never invoked, and run_decoding returns the empty string.
C12_EmptyInput ==
    (pc # "idle" /\ input = <<>>) =>
        /\ emitted = <<>>
        /\ engine_calls = 0
        /\ batches = <<>>
        /\ pc \in {"next_buffer", "return", "done"}
        /\ pc = "done" => ret = Some(<<>>)

\* run_decoding has returned for the empty input
C12_Witness == pc = "done" /\ input = <<>> /\ gen_pc = "finished"

\* the chunks of text are a partition of it into pieces of `length` characters
Partitions(text, length) ==
    LET chunks == cut_str(text, length)
        n == Len(text)
        count == Len(chunks)
    IN /\ Concat(chunks) = text
       /\ \A k \in 1..(count - 1) : Len(chunks[k]) = length
       /\ count > 0 => Len(chunks[count]) \in 1..length
       /\ (count - 1) * length < n \/ (count = 0 /\ n = 0)
       /\ n <= count * length

\* the chunks of text that trim to the empty string
BlankChunks(text) == {k \in DOMAIN cut_str(text, ChunkLen) : strip(cut_str(text, ChunkLen)[k]) = <<>>}

\* C14: the chunks of cut_str, concatenated in order, are the text; every chunk but
\* the last has exactly ChunkLen characters, the last between 1 and ChunkLen, and there
\* are ceil(n / ChunkLen) of them; and once the generator has ended, the number of
\* Lines it has handed over in its buffers is that count minus the chunks that trim to
\* the empty string.
C14_CutStrPartition ==
    gen_pc = "finished" =>
        /\ Partitions(input, ChunkLen)
        /\ Len(Concat(emitted)) = Len(input_list) - Cardinality(BlankChunks(input))

\* the cut_str half of C14 alone
CutStrPartitions == gen_pc = "finished" => Partitions(input, ChunkLen)

\* C15: whenever __init__ has got past its assertions, buffer_size is at least 1 (1 if
\* the caller's value was below 1, the caller's value otherwise), at least one of
\* max_tokens and max_sentences is set, and max_sentences is unset, zero or at most
\* buffer_size; and the check of max_sentences sees the coerced buffer_size: options
\* with a buffer size below 1 and max_sentences = 1 are not rejected by it.
C15_ConfigurationInvariant ==
    /\ Constructing =>
          /\ args.buffer_size >= 1
          /\ args.buffer_size = (IF caller_args.buffer_size < 1 THEN 1 ELSE caller_args.buffer_size)
          /\ args.max_tokens # None \/ args.max_sentences # None
          /\ \/ args.max_sentences = None
             \/ Val(args.max_sentences) = 0
             \/ Val(args.max_sentences) <= args.buffer_size
    /\ (/\ pc # "new"
        /\ caller_args.buffer_size < 1
        /\ caller_args.max_sentences = Some(1)
        /\ ~caller_args.sampling) => Constructing
C15_Witness ==
    /\ pc = "idle"
    /\ caller_args.buffer_size < 1
    /\ caller_args.max_sentences = Some(1)
    /\ args.buffer_size = 1

\* a call of run_decoding starts from nothing of the call before
StartsAfresh ==
    (calls_left' # calls_left) =>
        /\ start_id' = 0
        /\ output_str_list' = <<>>
        /\ results' = <<>>
        /\ emitted' = <<>>
        /\ gen_pc' = "start"
        /\ args' = args

\* C16: a second run_decoding call on the same object with the same text, the engine
\* answering every id both times, returns the string the first call returned; every call
\* starts with the offset 0 and empty accumulators, and a second call that returns
\* after the first was left by an engine failure returns what a first call returns,
\* the decoded Lines in text order.
C16_InvocationIsolation ==
    /\ []((pc = "done" /\ ~dropped /\ prev_end = "returned") => ret = prev_ret)
    /\ []((pc = "done" /\ ~dropped /\ prev_end = "raised")
            => ret = Some(DecodedInOrder(ChunkerLines(input))))
    /\ []((pc = "next_buffer" /\ emitted = <<>>) => (start_id = 0 /\ output_str_list = <<>>))
    /\ []((pc = "dispatch" /\ bi = 0) => results = <<>>)
    /\ [][StartsAfresh]_vars
C16_Witness ==
    /\ pc = "done"
    /\ ~dropped
    /\ prev_end = "returned"
    /\ Len(emitted) = 2
    /\ ret = prev_ret
    /\ ret # Some(<<>>)

\* the last step_update call was on the else branch
NonWarmupCall == warmup_updates = 0 \/ num_updates > warmup_updates

\* a step into a failed step_update call leaves the optimizer's rate as it was
FailedCallKeepsRate == (step_outcome' = "raised") => optimizer_lr' = optimizer_lr

\* C17: a step_update call with warmup_updates = 0 or num_updates > warmup_updates
\* fails, and a failing call leaves the optimizer's learning rate as it was; a call
\* with warmup_updates > 0 and num_updates <= warmup_updates returns, having set the
\* rate to num_updates / warmup_updates times the base rate.
C17_NonWarmupBranchFails ==
    /\ []((step_outcome # "none" /\ NonWarmupCall) => step_outcome = "raised")
    /\ []((step_outcome # "none" /\ ~NonWarmupCall) =>
            /\ step_outcome = "returned"
            /\ optimizer_lr = <<num_updates, warmup_updates>>)
    /\ [][FailedCallKeepsRate]_vars
C17_Witness ==
    /\ step_outcome = "raised"
    /\ warmup_updates = 2
    /\ num_updates = 3
    /\ optimizer_lr = <<1, 2>>

====
